---- MODULE Spec2Model ----
(***************************************************************************)
(* Session-continuity layer of claude_agent_quick_start_agentcore.py:      *)
(* get_stored_session_id, save_session_id and the resume-with-fallback     *)
(* control flow of main, against the AgentCore Memory store and the        *)
(* Claude SDK client, both modelled as nondeterministic collaborators.     *)
(*                                                                         *)
(* Python str values are sequences of one-character strings, so that       *)
(* startswith, replace, strip, lower, "in" and join are computed.          *)
(* Optional values (str | None) are records [some, val].                   *)
(***************************************************************************)
EXTENDS Integers, Sequences, FiniteSets, TLC

(* ------------------------------ bounds --------------------------------- *)
\* number of turns (calls of main) a behaviour may start
MaxTurns == 3
\* number of events in a listing handed to get_stored_session_id in SpecResolve
MaxEvents == 2
\* number of turns a behaviour of SpecConc may start
MaxConcTurns == 3
MaxFairTurns == 2
\* number of pieces a session handle of SpecCodec is made of
MaxPieces == 3

(* --------------------------- program constants ------------------------- *)
MEMORY_ID == "claudeagentsdkdemo_mem-ASCTQAHVFO"
ACTOR_ID == "claude_agent"
\* max_results=10 of the list_events call
max_results == 10
\* the literal "__SESSION__:" of save_session_id and get_stored_session_id
MARKER_PREFIX == <<"_", "_", "S", "E", "S", "S", "I", "O", "N", "_", "_", ":">>
\* the two literals main looks for in the lowered failure message
NoConversationFound == <<"n", "o", " ", "c", "o", "n", "v", "e", "r", "s", "a", "t", "i", "o", "n", " ", "f", "o", "u", "n", "d">>
ExitCode1 == <<"e", "x", "i", "t", " ", "c", "o", "d", "e", " ", "1">>
\* the two messages of main's input validation
ErrNoPayload == <<"N", "o", " ", "p", "a", "y", "l", "o", "a", "d", " ", "p", "r", "o", "v", "i", "d", "e", "d">>
ErrNoPrompt == <<"N", "o", " ", "p", "r", "o", "m", "p", "t", " ", "p", "r", "o", "v", "i", "d", "e", "d">>
\* the literal "default" of lines 127 and 129
DefaultConversation == <<"d", "e", "f", "a", "u", "l", "t">>

(* ------------------------------ Python str ----------------------------- *)
None == [some |-> FALSE, val |-> <<>>]
Some(v) == [some |-> TRUE, val |-> v]
\* truthiness of a str | None value: None and "" are falsy
Truthy(o) == o.some /\ o.val # <<>>

UpperChars == <<"A", "B", "C", "D", "E", "F", "G", "H", "I", "J", "K", "L", "M", "N", "O", "P", "Q", "R", "S", "T", "U", "V", "W", "X", "Y", "Z">>
LowerChars == <<"a", "b", "c", "d", "e", "f", "g", "h", "i", "j", "k", "l", "m", "n", "o", "p", "q", "r", "s", "t", "u", "v", "w", "x", "y", "z">>
Whitespace == {" ", "\t", "\n", "\r"}

\* str.lower()
LowerChar(c) ==
    IF \E i \in 1..Len(UpperChars) : UpperChars[i] = c
    THEN LowerChars[CHOOSE i \in 1..Len(UpperChars) : UpperChars[i] = c]
    ELSE c
Lower(s) == [i \in 1..Len(s) |-> LowerChar(s[i])]

\* str.startswith(p)
StartsWith(s, p) == Len(s) >= Len(p) /\ SubSeq(s, 1, Len(p)) = p

\* sub in s
Contains(s, sub) ==
    \E i \in 0..(Len(s) - Len(sub)) : SubSeq(s, i + 1, i + Len(sub)) = sub

\* s.replace(old, ""): every non-overlapping occurrence, scanning left to right
RECURSIVE RemoveAll(_, _)
RemoveAll(s, old) ==
    IF Len(s) < Len(old) THEN s
    ELSE IF StartsWith(s, old) THEN RemoveAll(SubSeq(s, Len(old) + 1, Len(s)), old)
    ELSE <<Head(s)>> \o RemoveAll(Tail(s), old)

\* str.strip()
RECURSIVE LStrip(_)
LStrip(s) == IF s # <<>> /\ Head(s) \in Whitespace THEN LStrip(Tail(s)) ELSE s
RECURSIVE RStrip(_)
RStrip(s) ==
    IF s # <<>> /\ s[Len(s)] \in Whitespace THEN RStrip(SubSeq(s, 1, Len(s) - 1)) ELSE s
Strip(s) == RStrip(LStrip(s))

\* "\n".join(parts)
RECURSIVE Join(_)
Join(parts) ==
    IF parts = <<>> THEN <<>>
    ELSE IF Len(parts) = 1 THEN parts[1]
    ELSE parts[1] \o <<"\n">> \o Join(Tail(parts))

(* --------------------------- the event store --------------------------- *)
\* A stored event as list_events returns it.  shape "dict" is a dict event,
\* anything else fails isinstance(event, dict).  payloadShape is "list",
\* "missing" (no payload key: the default [] is used) or "other".
\* A message of the payload has one of the shapes
\*   "conversational"  {"conversational": {"content": {"text": str}, "role": r}}
\*   "notdict"         not a dict
\*   "blob"            a dict without the key "conversational"
\*   "conv_notdict"    "conversational" maps to a non-dict (None, str, list)
\*   "no_content"      "conversational" is a dict without "content"
\*   "content_notdict" "content" maps to a non-dict
\*   "text_notstr"     "text" maps to a non-str
Msg(text, role) == [shape |-> "conversational", role |-> role, text |-> text]
BadMsg(shape) == [shape |-> shape, role |-> "OTHER", text |-> <<>>]
Event(id, payload) ==
    [eventId |-> id, shape |-> "dict", payloadShape |-> "list", payload |-> payload]

\* the decode step of get_stored_session_id, line 74
DecodeMarker(content) == Strip(RemoveAll(content, MARKER_PREFIX))

\* lines 69-76 on one message: "skip", "found" with the handle, or "raise"
\* (AttributeError from .get on a non-dict)
ScanMsg(msg) ==
    IF msg.shape = "notdict" THEN [kind |-> "skip", val |-> <<>>]
    ELSE IF msg.shape \in {"conv_notdict", "content_notdict"}
    THEN [kind |-> "raise", val |-> <<>>]
    ELSE IF msg.shape = "conversational" /\ StartsWith(msg.text, MARKER_PREFIX)
    THEN [kind |-> "found", val |-> DecodeMarker(msg.text)]
    ELSE [kind |-> "skip", val |-> <<>>]

\* the inner loop, lines 67-76
RECURSIVE ScanPayload(_)
ScanPayload(payload) ==
    IF payload = <<>> THEN [kind |-> "skip", val |-> <<>>]
    ELSE LET r == ScanMsg(Head(payload))
         IN  IF r.kind = "skip" THEN ScanPayload(Tail(payload)) ELSE r

\* the outer loop, lines 58-78
RECURSIVE ScanEventsLast(_)
ScanEventsLast(events) ==
    IF events = <<>> THEN [kind |-> "skip", val |-> <<>>]
    ELSE LET e == events[Len(events)]
             r == IF e.shape # "dict" \/ e.payloadShape # "list"
                  THEN [kind |-> "skip", val |-> <<>>]
                  ELSE ScanPayload(e.payload)
         IN  IF r.kind = "skip"
             THEN ScanEventsLast(SubSeq(events, 1, Len(events) - 1))
             ELSE r
RECURSIVE ScanEvents(_)
ScanEvents(events) ==
    IF events = <<>> THEN [kind |-> "skip", val |-> <<>>]
    ELSE LET e == Head(events)
             r == IF e.shape # "dict" \/ e.payloadShape # "list"
                  THEN [kind |-> "skip", val |-> <<>>]
                  ELSE ScanPayload(e.payload)
         IN  IF r.kind = "skip" THEN ScanEvents(Tail(events)) ELSE r

\* memory_client.list_events(...): the store fails (ok = FALSE) or returns
\* the first max_results events of the conversation in the order ord, a
\* permutation the store chooses
Perms(n) == {f \in [1..n -> 1..n] : \A i, j \in 1..n : f[i] = f[j] => i = j}
list_events(st, conversation, ok, ord) ==
    LET all == st[conversation]
        n == IF Len(all) < max_results THEN Len(all) ELSE max_results
    IN  [failed |-> ~ok,
         events |-> IF ok THEN [i \in 1..n |-> all[ord[i]]] ELSE <<>>]

\* get_stored_session_id, lines 43-81, on the outcome of the list_events call.
\* raised is TRUE when an exception leaves the function.
get_stored_session_id_propagating(listed) ==
    IF listed.failed THEN [raised |-> TRUE, value |-> None]
    ELSE LET r == ScanEvents(listed.events)
         IN  [raised |-> FALSE,
              value |-> IF r.kind = "found" THEN Some(r.val) ELSE None]
get_stored_session_id(listed) ==
    IF MEMORY_ID = "" THEN [raised |-> FALSE, value |-> None]
    ELSE IF listed.failed THEN [raised |-> FALSE, value |-> None]
    ELSE LET r == ScanEvents(listed.events)
         IN  [raised |-> FALSE,
              value |-> IF r.kind = "found" THEN Some(r.val) ELSE None]

\* save_session_id, lines 84-103: the store after the call.  ok = FALSE is a
\* create_event that raises; the exception is caught and printed.
save_session_id_propagating(st, conversation, sid, user_input, response, ok) ==
    IF sid = <<>> THEN [store |-> st, raised |-> FALSE]
    ELSE IF ~ok THEN [store |-> st, raised |-> TRUE]
    ELSE [store |-> [st EXCEPT ![conversation] = Append(@,
              Event(Len(@) + 1,
                    <<Msg(user_input, "USER"), Msg(response, "ASSISTANT"),
                      Msg(MARKER_PREFIX \o sid, "OTHER")>>))],
          raised |-> FALSE]
save_session_id_swapped(st, conversation, sid, user_input, response, ok) ==
    IF sid = <<>> \/ ~ok THEN [store |-> st, raised |-> FALSE]
    ELSE [store |-> [st EXCEPT ![conversation] = Append(@,
              Event(Len(@) + 1,
                    <<Msg(response, "USER"), Msg(user_input, "ASSISTANT"),
                      Msg(MARKER_PREFIX \o sid, "OTHER")>>))],
          raised |-> FALSE]
save_session_id_default_conversation(st, conversation, sid, user_input, response, ok) ==
    IF sid = <<>> \/ ~ok THEN [store |-> st, raised |-> FALSE]
    ELSE [store |-> [st EXCEPT ![DefaultConversation] = Append(@,
              Event(Len(@) + 1,
                    <<Msg(user_input, "USER"), Msg(response, "ASSISTANT"),
                      Msg(MARKER_PREFIX \o sid, "OTHER")>>))],
          raised |-> FALSE]
save_session_id_overwriting(st, conversation, sid, user_input, response, ok) ==
    IF sid = <<>> \/ ~ok THEN [store |-> st, raised |-> FALSE]
    ELSE [store |-> [st EXCEPT ![conversation] =
              <<Event(Len(@) + 1,
                      <<Msg(user_input, "USER"), Msg(response, "ASSISTANT"),
                        Msg(MARKER_PREFIX \o sid, "OTHER")>>)>>],
          raised |-> FALSE]
save_session_id(st, conversation, sid, user_input, response, ok) ==
    IF MEMORY_ID = "" \/ sid = <<>> THEN [store |-> st, raised |-> FALSE]
    ELSE IF ~ok THEN [store |-> st, raised |-> FALSE]
    ELSE [store |-> [st EXCEPT ![conversation] = Append(@,
              Event(Len(@) + 1,
                    <<Msg(user_input, "USER"), Msg(response, "ASSISTANT"),
                      Msg(MARKER_PREFIX \o sid, "OTHER")>>))],
          raised |-> FALSE]

(* --------------------------- the agent invoker ------------------------- *)
\* Messages of client.receive_response() and the blocks of an AssistantMessage
TextBlock(text) == [type |-> "TextBlock", text |-> text]
ToolUseBlock == [type |-> "ToolUseBlock", text |-> <<>>]
AssistantMessage(content) ==
    [type |-> "AssistantMessage", content |-> content, session_id |-> <<>>]
ResultMessage(sid) ==
    [type |-> "ResultMessage", content |-> <<>>, session_id |-> sid]
SystemMessage == [type |-> "SystemMessage", content |-> <<>>, session_id |-> <<>>]

\* lines 155-157: the texts of the TextBlocks of one AssistantMessage
RECURSIVE BlockTexts(_)
BlockTexts(content) ==
    IF content = <<>> THEN <<>>
    ELSE (IF Head(content).type = "TextBlock" THEN <<Head(content).text>> ELSE <<>>)
         \o BlockTexts(Tail(content))

\* lines 147-162: the loop over the stream, from the state (responses,
\* new_session_id)
RECURSIVE Receive(_, _, _)
Receive(stream, responses, new_session_id) ==
    IF stream = <<>>
    THEN [responses |-> responses, new_session_id |-> new_session_id]
    ELSE LET m == Head(stream)
         IN  Receive(Tail(stream),
                     IF m.type = "AssistantMessage"
                     THEN responses \o BlockTexts(m.content) ELSE responses,
                     IF m.type = "ResultMessage"
                     THEN Some(m.session_id) ELSE new_session_id)

\* What one run of the SDK client does: it delivers the messages of stream
\* and then the stream ends ("return"), the client raises an Exception whose
\* str() is err ("raise"), or the awaiting task is cancelled ("cancel":
\* asyncio.CancelledError, which is not an Exception).
Outcome(stream, end, err) == [stream |-> stream, end |-> end, err |-> err]

\* execute_query, lines 137-164.  resume is options.resume as the client
\* gets it; responses and new_session_id reach the caller only on return.
execute_query_keeping_resume(resume_session, o) ==
    LET got == Receive(o.stream, <<>>, resume_session)
    IN  [resume |-> IF Truthy(resume_session) THEN resume_session ELSE None,
         exc |-> IF o.end = "return" THEN "none"
                 ELSE IF o.end = "raise" THEN "Exception" ELSE "CancelledError",
         err |-> IF o.end = "raise" THEN o.err ELSE <<>>,
         responses |-> IF o.end = "return" THEN got.responses ELSE <<>>,
         new_session_id |-> IF o.end = "return" THEN got.new_session_id ELSE None]
execute_query_swallowing_cancel(resume_session, o) ==
    LET got == Receive(o.stream, <<>>, None)
    IN  [resume |-> IF Truthy(resume_session) THEN resume_session ELSE None,
         exc |-> IF o.end = "raise" THEN "Exception" ELSE "none",
         err |-> IF o.end = "raise" THEN o.err ELSE <<>>,
         responses |-> IF o.end # "raise" THEN got.responses ELSE <<>>,
         new_session_id |-> IF o.end # "raise" THEN got.new_session_id ELSE None]
execute_query(resume_session, o) ==
    LET got == Receive(o.stream, <<>>, None)
    IN  [resume |-> IF Truthy(resume_session) THEN resume_session ELSE None,
         exc |-> IF o.end = "return" THEN "none"
                 ELSE IF o.end = "raise" THEN "Exception" ELSE "CancelledError",
         err |-> IF o.end = "raise" THEN o.err ELSE <<>>,
         responses |-> IF o.end = "return" THEN got.responses ELSE <<>>,
         new_session_id |-> IF o.end = "return" THEN got.new_session_id ELSE None]

(* --------------------------------- main -------------------------------- *)
\* line 178-179: the failures of a resume attempt that start a fresh attempt
IsExpectedResumeFailureCaseSensitive(e) ==
    Contains(e, NoConversationFound) \/ Contains(e, ExitCode1)
IsExpectedResumeFailure(e) ==
    LET error_msg == Lower(e)
    IN  Contains(error_msg, NoConversationFound) \/ Contains(error_msg, ExitCode1)

\* line 181: the resume hint of the fallback call
FallbackResumeStored(stored) == stored
FallbackResume(stored) == None

\* the values main returns; kind "raised" is an exception leaving main
NoResult ==
    [kind |-> "none", response |-> <<>>, conversation_id |-> <<>>,
     session_id |-> None, error |-> <<>>]
Raised ==
    [kind |-> "raised", response |-> <<>>, conversation_id |-> <<>>,
     session_id |-> None, error |-> <<>>]
\* lines 118, 122, 190
ErrorResultLowered(e) ==
    [kind |-> "error", response |-> <<>>, conversation_id |-> <<>>,
     session_id |-> None, error |-> Lower(e)]
ErrorResult(e) ==
    [kind |-> "error", response |-> <<>>, conversation_id |-> <<>>,
     session_id |-> None, error |-> e]
\* lines 192, 198-202
SuccessResult(full_response, conversation, sid) ==
    [kind |-> "ok", response |-> Join(full_response),
     conversation_id |-> conversation, session_id |-> sid, error |-> <<>>]

\* lines 117, 120-121: the payload is None or a dict with the optional keys
\* prompt and conversation_id; None and the empty dict are falsy
Payload(isNone, prompt, conversation) ==
    [isNone |-> isNone, prompt |-> prompt, conversation_id |-> conversation]
PayloadFalsy(payload) ==
    payload.isNone \/ (~payload.prompt.some /\ ~payload.conversation_id.some)
\* lines 117-122: the requests main answers with an error at once
InvalidRequestNoPayloadOnly(payload) == PayloadFalsy(payload)
InvalidRequest(payload) == PayloadFalsy(payload) \/ ~Truthy(payload.prompt)
\* lines 125-129
ConversationOf(payload, context) ==
    IF Truthy(payload.conversation_id) THEN payload.conversation_id.val
    ELSE IF context.present
    THEN (IF Truthy(context.session_id) THEN context.session_id.val
          ELSE DefaultConversation)
    ELSE DefaultConversation

(* ------------------------------- inputs -------------------------------- *)
Procs == {1, 2}
ConvC1 == <<"c", "1">>
Conversations == {ConvC1, DefaultConversation}
PromptHi == <<"h", "i">>
\* a prompt that begins with the marker prefix
PromptMarker == MARKER_PREFIX \o <<"x">>
HandleS1 == <<"s", "1">>
HandleS2 == <<"s", "2">>
TextOk == <<"o", "k">>
MsgNoConversation == <<"N", "o", " ", "c", "o", "n", "v", "e", "r", "s", "a", "t", "i", "o", "n", " ", "f", "o", "u", "n", "d">>
MsgExitCode == <<"C", "o", "m", "m", "a", "n", "d", " ", "f", "a", "i", "l", "e", "d", " ", "w", "i", "t", "h", " ", "e", "x", "i", "t", " ", "c", "o", "d", "e", " ", "1">>
MsgTimeout == <<"T", "i", "m", "e", "o", "u", "t">>

Payloads ==
    { Payload(TRUE, None, None),
      Payload(FALSE, Some(<<>>), Some(ConvC1)),
      Payload(FALSE, None, Some(ConvC1)),
      Payload(FALSE, Some(PromptHi), Some(ConvC1)),
      Payload(FALSE, Some(PromptHi), None),
      Payload(FALSE, Some(PromptMarker), Some(ConvC1)),
      Payload(FALSE, Some(MARKER_PREFIX), Some(ConvC1)) }
Contexts ==
    { [present |-> FALSE, session_id |-> None],
      [present |-> TRUE, session_id |-> None],
      [present |-> TRUE, session_id |-> Some(ConvC1)] }
StreamOk == <<AssistantMessage(<<TextBlock(TextOk)>>), ResultMessage(HandleS1)>>
StreamTwo ==
    <<SystemMessage,
      AssistantMessage(<<TextBlock(<<"a">>), ToolUseBlock, TextBlock(<<"b">>)>>),
      ResultMessage(HandleS2)>>
StreamNoResult == <<AssistantMessage(<<TextBlock(TextOk)>>)>>
\* a ResultMessage whose session_id is the empty string
StreamEmptyHandle == <<ResultMessage(<<>>)>>
Outcomes ==
    { Outcome(StreamOk, "return", <<>>),
      Outcome(StreamTwo, "return", <<>>),
      Outcome(StreamNoResult, "return", <<>>),
      Outcome(StreamEmptyHandle, "return", <<>>),
      Outcome(<<>>, "raise", MsgNoConversation),
      Outcome(StreamNoResult, "raise", MsgExitCode),
      Outcome(<<>>, "raise", MsgTimeout),
      Outcome(StreamNoResult, "cancel", <<>>),
      Outcome(StreamOk, "cancel", <<>>) }

(* -------------------------------- state -------------------------------- *)
VARIABLES
    store,            \* conversation -> the events appended, oldest first
    turns,            \* calls of main started so far
    pc,               \* per process: "idle", "resolved" (line 170), "fallback" (line 181)
    prompt,           \* per process: main's prompt
    conversation_id,  \* per process: main's conversation_id
    stored_session,   \* per process: main's stored_session
    result,           \* per process: what the last call of main returned
    listed,           \* per process: the list_events call of the turn
    calls,            \* per process: the execute_query calls of the turn
    persist,          \* per process: the create_event call of the turn
    rinput,           \* SpecResolve: the events handed to get_stored_session_id
    routput           \* SpecResolve: what it returned

vars == <<store, turns, pc, prompt, conversation_id, stored_session, result,
          listed, calls, persist, rinput, routput>>

NotListed == [called |-> FALSE, failed |-> FALSE, events |-> <<>>]
NoPersist == [called |-> FALSE, ok |-> FALSE, batch |-> <<>>]
NotResolved == [done |-> FALSE, raised |-> FALSE, value |-> None]

Init ==
    /\ store = [c \in Conversations |-> <<>>]
    /\ turns = 0
    /\ pc = [p \in Procs |-> "idle"]
    /\ prompt = [p \in Procs |-> <<>>]
    /\ conversation_id = [p \in Procs |-> <<>>]
    /\ stored_session = [p \in Procs |-> None]
    /\ result = [p \in Procs |-> NoResult]
    /\ listed = [p \in Procs |-> NotListed]
    /\ calls = [p \in Procs |-> <<>>]
    /\ persist = [p \in Procs |-> NoPersist]
    /\ rinput = <<>>
    /\ routput = NotResolved

\* lines 117-135: validation, conversation id, get_stored_session_id
BeginTurn(p, limit, payloads, contexts) ==
    /\ pc[p] = "idle"
    /\ turns < limit
    /\ turns' = turns + 1
    /\ calls' = [calls EXCEPT ![p] = <<>>]
    /\ persist' = [persist EXCEPT ![p] = NoPersist]
    /\ UNCHANGED <<store, rinput, routput>>
    /\ \E payload \in payloads, context \in contexts :
         IF InvalidRequest(payload)
         THEN /\ result' = [result EXCEPT ![p] =
                    ErrorResult(IF PayloadFalsy(payload)
                                THEN ErrNoPayload ELSE ErrNoPrompt)]
              /\ listed' = [listed EXCEPT ![p] = NotListed]
              /\ prompt' = [prompt EXCEPT ![p] = <<>>]
              /\ conversation_id' = [conversation_id EXCEPT ![p] = <<>>]
              /\ stored_session' = [stored_session EXCEPT ![p] = None]
              /\ UNCHANGED pc
         ELSE LET conversation == ConversationOf(payload, context)
                  n == IF Len(store[conversation]) < max_results
                       THEN Len(store[conversation]) ELSE max_results
              IN  \E ok \in BOOLEAN, ord \in Perms(Len(store[conversation])) :
                    LET l == list_events(store, conversation, ok, ord)
                        r == get_stored_session_id(l)
                    IN  /\ prompt' = [prompt EXCEPT ![p] = payload.prompt.val]
                        /\ conversation_id' =
                               [conversation_id EXCEPT ![p] = conversation]
                        /\ listed' = [listed EXCEPT ![p] =
                               [called |-> TRUE, failed |-> l.failed,
                                events |-> l.events]]
                        /\ stored_session' =
                               [stored_session EXCEPT ![p] = r.value]
                        /\ IF r.raised
                           THEN /\ result' = [result EXCEPT ![p] = Raised]
                                /\ UNCHANGED pc
                           ELSE /\ result' = [result EXCEPT ![p] = NoResult]
                                /\ pc' = [pc EXCEPT ![p] = "resolved"]

Begin(p) == BeginTurn(p, MaxTurns, Payloads, Contexts)

\* lines 192-202 after a call of execute_query returned r
CompleteStale(p, r, appendOk) ==
    LET response_text == Join(r.responses)
        sid == IF Truthy(stored_session[p]) THEN stored_session[p].val
               ELSE r.new_session_id.val
        sv == IF Truthy(r.new_session_id)
              THEN save_session_id(store, conversation_id[p], sid, prompt[p],
                                   response_text, appendOk)
              ELSE [store |-> store, raised |-> FALSE]
        after == sv.store[CHOOSE c \in Conversations : sv.store[c] # store[c]]
    IN  /\ store' = sv.store
        /\ persist' = [persist EXCEPT ![p] =
               IF ~Truthy(r.new_session_id) THEN NoPersist
               ELSE [called |-> TRUE, ok |-> appendOk,
                     batch |-> IF sv.store # store
                               THEN after[Len(after)].payload ELSE <<>>]]
        /\ result' = [result EXCEPT ![p] =
               SuccessResult(r.responses, conversation_id[p], r.new_session_id)]
        /\ pc' = [pc EXCEPT ![p] = "idle"]
Complete(p, r, appendOk) ==
    LET response_text == Join(r.responses)
        sv == IF Truthy(r.new_session_id)
              THEN save_session_id(store, conversation_id[p],
                                   r.new_session_id.val, prompt[p],
                                   response_text, appendOk)
              ELSE [store |-> store, raised |-> FALSE]
        after == sv.store[CHOOSE c \in Conversations : sv.store[c] # store[c]]
    IN  /\ store' = sv.store
        /\ persist' = [persist EXCEPT ![p] =
               IF ~Truthy(r.new_session_id) THEN NoPersist
               ELSE [called |-> TRUE, ok |-> appendOk,
                     batch |-> IF sv.store # store
                               THEN after[Len(after)].payload ELSE <<>>]]
        /\ result' = [result EXCEPT ![p] =
               IF sv.raised THEN Raised
               ELSE SuccessResult(r.responses, conversation_id[p],
                                  r.new_session_id)]
        /\ pc' = [pc EXCEPT ![p] = "idle"]

\* lines 188-190, and an exception that is not an Exception leaving main
FailPropagating(p, r) ==
    /\ result' = [result EXCEPT ![p] = Raised]
    /\ pc' = [pc EXCEPT ![p] = "idle"]
    /\ UNCHANGED <<store, persist>>
Fail(p, r) ==
    /\ result' = [result EXCEPT ![p] =
           IF r.exc = "Exception" THEN ErrorResult(r.err) ELSE Raised]
    /\ pc' = [pc EXCEPT ![p] = "idle"]
    /\ UNCHANGED <<store, persist>>

\* lines 170-186: the first execute_query call of the turn, with what
\* follows its return or its failure
AttemptWith(p, outcomes) ==
    /\ pc[p] = "resolved"
    /\ UNCHANGED <<turns, prompt, conversation_id, stored_session, listed,
                   rinput, routput>>
    /\ \E o \in outcomes, appendOk \in BOOLEAN :
         LET r == execute_query(stored_session[p], o)
         IN  /\ calls' = [calls EXCEPT ![p] =
                    Append(@, [resume |-> r.resume, outcome |-> o])]
             /\ IF r.exc = "none" THEN Complete(p, r, appendOk)
                ELSE IF r.exc = "Exception" /\ Truthy(stored_session[p])
                        /\ IsExpectedResumeFailure(r.err)
                THEN /\ pc' = [pc EXCEPT ![p] = "fallback"]
                     /\ UNCHANGED <<store, persist, result>>
                ELSE Fail(p, r)

Attempt(p) == AttemptWith(p, Outcomes)

\* line 181: the fresh attempt after a failed resume attempt
FallbackWithLeaking(p, outcomes) ==
    /\ pc[p] = "fallback"
    /\ UNCHANGED <<turns, prompt, conversation_id, stored_session, listed,
                   rinput, routput>>
    /\ \E o \in outcomes, appendOk \in BOOLEAN :
         LET q == execute_query(FallbackResume(stored_session[p]), o)
             r == [q EXCEPT !.responses =
                     Receive(calls[p][1].outcome.stream, <<>>, None).responses \o @]
         IN  /\ calls' = [calls EXCEPT ![p] =
                    Append(@, [resume |-> r.resume, outcome |-> o])]
             /\ IF r.exc = "none" THEN Complete(p, r, appendOk)
                ELSE Fail(p, r)
FallbackWith(p, outcomes) ==
    /\ pc[p] = "fallback"
    /\ UNCHANGED <<turns, prompt, conversation_id, stored_session, listed,
                   rinput, routput>>
    /\ \E o \in outcomes, appendOk \in BOOLEAN :
         LET r == execute_query(FallbackResume(stored_session[p]), o)
         IN  /\ calls' = [calls EXCEPT ![p] =
                    Append(@, [resume |-> r.resume, outcome |-> o])]
             /\ IF r.exc = "none" THEN Complete(p, r, appendOk)
                ELSE Fail(p, r)

Fallback(p) == FallbackWith(p, Outcomes)

\* Spec runs the turns of one runtime process one after the other
Main == {1}
Next == \E p \in Main : Begin(p) \/ Attempt(p) \/ Fallback(p)

Spec == Init /\ [][Next]_vars

\* every await of main completes: an execute_query call that has been made
\* returns, raises or is cancelled.  No turn has to be started.
FairBegin(p) == BeginTurn(p, MaxFairTurns, Payloads, Contexts)
NextFair == \E p \in Main : FairBegin(p) \/ Attempt(p) \/ Fallback(p)
FairSpec ==
    /\ Init /\ [][NextFair]_vars
    /\ \A p \in Main : WF_vars(Attempt(p)) /\ WF_vars(Fallback(p))

(* ------------------------- concurrent turns ---------------------------- *)
\* SpecConc runs the turns of two runtime processes interleaved: between the
\* list_events call of a turn and its create_event call the other process
\* may list and append.  Each store call is one step of the store.
ConcPayloads ==
    { Payload(FALSE, Some(PromptHi), Some(ConvC1)),
      Payload(FALSE, Some(PromptHi), None),
      Payload(FALSE, Some(PromptMarker), Some(ConvC1)) }
ConcContexts == { [present |-> FALSE, session_id |-> None] }
ConcOutcomes ==
    { Outcome(StreamOk, "return", <<>>),
      Outcome(StreamTwo, "return", <<>>),
      Outcome(<<>>, "raise", MsgNoConversation) }
ConcBegin(p) == BeginTurn(p, MaxConcTurns, ConcPayloads, ConcContexts)
ConcAttempt(p) == AttemptWith(p, ConcOutcomes)
ConcFallback(p) == FallbackWith(p, ConcOutcomes)

NextConc == \E p \in Procs : ConcBegin(p) \/ ConcAttempt(p) \/ ConcFallback(p)

SpecConc == Init /\ [][NextConc]_vars

(* ----------------- get_stored_session_id on its own -------------------- *)
\* events as list_events may return them, well formed and not
NonDictEvent ==
    [eventId |-> 0, shape |-> "other", payloadShape |-> "missing", payload |-> <<>>]
NonListPayloadEvent ==
    [eventId |-> 0, shape |-> "dict", payloadShape |-> "other", payload |-> <<>>]
NoPayloadEvent ==
    [eventId |-> 0, shape |-> "dict", payloadShape |-> "missing", payload |-> <<>>]
EventTemplates ==
    { Event(0, <<Msg(PromptHi, "USER"), Msg(TextOk, "ASSISTANT"),
                 Msg(MARKER_PREFIX \o HandleS1, "OTHER")>>),
      Event(0, <<Msg(PromptHi, "USER"), Msg(TextOk, "ASSISTANT"),
                 Msg(MARKER_PREFIX \o HandleS2, "OTHER")>>),
      Event(0, <<Msg(PromptMarker, "USER"), Msg(TextOk, "ASSISTANT")>>),
      Event(0, <<BadMsg("notdict"), BadMsg("blob"), BadMsg("no_content"),
                 BadMsg("text_notstr")>>),
      Event(0, <<BadMsg("conv_notdict")>>),
      Event(0, <<Msg(PromptHi, "USER"), BadMsg("content_notdict")>>),
      NonDictEvent, NonListPayloadEvent, NoPayloadEvent }
EventLists ==
    UNION {[1..n -> EventTemplates] : n \in 0..MaxEvents}

InitResolve ==
    /\ store = [c \in Conversations |-> <<>>]
    /\ turns = 0
    /\ pc = [p \in Procs |-> "idle"]
    /\ prompt = [p \in Procs |-> <<>>]
    /\ conversation_id = [p \in Procs |-> <<>>]
    /\ stored_session = [p \in Procs |-> None]
    /\ result = [p \in Procs |-> NoResult]
    /\ listed = [p \in Procs |-> NotListed]
    /\ calls = [p \in Procs |-> <<>>]
    /\ persist = [p \in Procs |-> NoPersist]
    /\ rinput \in EventLists
    /\ routput = NotResolved

\* one call of get_stored_session_id whose list_events call returned rinput
Resolve ==
    /\ ~routput.done
    /\ LET r == get_stored_session_id([failed |-> FALSE, events |-> rinput])
       IN  routput' = [done |-> TRUE, raised |-> r.raised, value |-> r.value]
    /\ UNCHANGED <<store, turns, pc, prompt, conversation_id, stored_session,
                   result, listed, calls, persist, rinput>>

NextResolve == Resolve

SpecResolve == InitResolve /\ [][NextResolve]_vars

(* --------------------------- the marker codec -------------------------- *)
\* session handles made of up to MaxPieces pieces: a letter, white space, the
\* marker prefix itself
Pieces == {<<"s">>, <<" ">>, <<"\n">>, MARKER_PREFIX}
RECURSIVE Flatten(_)
Flatten(ps) == IF ps = <<>> THEN <<>> ELSE Head(ps) \o Flatten(Tail(ps))
CodecHandles == {Flatten(ps) : ps \in UNION {[1..n -> Pieces] : n \in 1..MaxPieces}}

\* save_session_id writes the marker of handle h into an empty conversation
CodecSave ==
    /\ store[ConvC1] = <<>>
    /\ \E h \in CodecHandles :
         store' = save_session_id(store, ConvC1, h, PromptHi, TextOk, TRUE).store
    /\ UNCHANGED <<turns, pc, prompt, conversation_id, stored_session, result,
                   listed, calls, persist, rinput, routput>>

\* get_stored_session_id reads it back
CodecResolve ==
    /\ store[ConvC1] # <<>>
    /\ ~routput.done
    /\ LET l == list_events(store, ConvC1, TRUE, [i \in 1..Len(store[ConvC1]) |-> i])
           r == get_stored_session_id(l)
       IN  /\ rinput' = l.events
           /\ routput' = [done |-> TRUE, raised |-> r.raised, value |-> r.value]
    /\ UNCHANGED <<store, turns, pc, prompt, conversation_id, stored_session,
                   result, listed, calls, persist>>

NextCodec == CodecSave \/ CodecResolve

SpecCodec == Init /\ [][NextCodec]_vars

(* ------------------------------- claims -------------------------------- *)
\* the first call of p's turn was a resume attempt that raised an Exception
ResumeFailed(p) ==
    /\ Len(calls[p]) >= 1
    /\ calls[p][1].resume.some
    /\ calls[p][1].outcome.end = "raise"
\* the session handle a delivered stream carries: that of its last
\* ResultMessage, None without one
IssuedHandle(stream) ==
    LET R == {i \in 1..Len(stream) : stream[i].type = "ResultMessage"}
    IN  IF R = {} THEN None
        ELSE Some(stream[CHOOSE i \in R : \A j \in R : j <= i].session_id)
TurnOver(p) == pc[p] = "idle"

\* C1: a resume attempt that fails with a message containing "no conversation
\* found" (in any case) is followed by exactly one further execute_query call,
\* without resume hint; when that call returns, the turn returns a success
\* result whose session_id is the handle the fresh attempt issued.
C1_ResumeFallsBackToFresh ==
    \A p \in Procs :
      (ResumeFailed(p) /\ Contains(Lower(calls[p][1].outcome.err), NoConversationFound))
      => /\ Len(calls[p]) <= 2
         /\ (Len(calls[p]) = 1) = (pc[p] = "fallback")
         /\ TurnOver(p) => Len(calls[p]) = 2
         /\ Len(calls[p]) = 2 =>
              /\ ~calls[p][2].resume.some
              /\ calls[p][2].outcome.end = "return" =>
                   /\ result[p].kind = "ok"
                   /\ result[p].session_id = IssuedHandle(calls[p][2].outcome.stream)
C1_Witness ==
    \E p \in Procs :
      /\ TurnOver(p) /\ ResumeFailed(p)
      /\ calls[p][1].outcome.err = MsgNoConversation
      /\ Len(calls[p]) = 2 /\ calls[p][2].outcome.end = "return"
      /\ result[p].kind = "ok" /\ result[p].session_id.some
      /\ result[p].session_id # stored_session[p]

\* C2: a resume attempt that fails with a message matching neither "no
\* conversation found" nor "exit code 1" is the only execute_query call of the
\* turn; the turn returns {error: the message unchanged} and appends nothing.
C2_UnrelatedFailureNotRetried ==
    \A p \in Procs :
      (/\ ResumeFailed(p)
       /\ ~Contains(Lower(calls[p][1].outcome.err), NoConversationFound)
       /\ ~Contains(Lower(calls[p][1].outcome.err), ExitCode1))
      => /\ Len(calls[p]) = 1
         /\ TurnOver(p)
         /\ result[p].kind = "error"
         /\ result[p].error = calls[p][1].outcome.err
         /\ ~persist[p].called
C2_Witness ==
    \E p \in Procs :
      /\ ResumeFailed(p) /\ calls[p][1].outcome.err = MsgTimeout
      /\ result[p].kind = "error"
      /\ store[conversation_id[p]] # <<>>

\* C3: a turn calls execute_query at most twice; a second call follows a
\* failed resume attempt and carries no resume hint; a fresh attempt (first or
\* fallback) that fails is the last call and the turn returns the error result.
C3_AtMostOneRetry ==
    \A p \in Procs :
      /\ Len(calls[p]) <= 2
      /\ Len(calls[p]) = 2 => (ResumeFailed(p) /\ ~calls[p][2].resume.some)
      /\ \A i \in 1..Len(calls[p]) :
           (~calls[p][i].resume.some /\ calls[p][i].outcome.end = "raise")
           => /\ i = Len(calls[p])
              /\ TurnOver(p)
              /\ result[p].kind = "error"
              /\ result[p].error = calls[p][i].outcome.err
C3_Witness ==
    \E p \in Procs :
      /\ Len(calls[p]) = 2 /\ TurnOver(p)
      /\ calls[p][2].outcome.end = "raise"
      /\ calls[p][2].outcome.err = MsgExitCode
      /\ result[p].kind = "error"

\* p's turn ends in this step
Finishes(p) == pc[p] # "idle" /\ pc'[p] = "idle"
\* the last execute_query call of p's turn
LastCall(p) == calls[p][Len(calls[p])]
\* the batch save_session_id is to write for a turn of prompt q that returned
\* the response text and the handle sid
Batch(q, response, sid) ==
    <<Msg(q, "USER"), Msg(response, "ASSISTANT"), Msg(MARKER_PREFIX \o sid, "OTHER")>>
\* st2 is st1 with one event of the given payload appended to conversation c
AppendedOne(st1, st2, c, payload) ==
    /\ \A d \in Conversations \ {c} : st2[d] = st1[d]
    /\ Len(st2[c]) = Len(st1[c]) + 1
    /\ SubSeq(st2[c], 1, Len(st1[c])) = st1[c]
    /\ st2[c][Len(st2[c])].payload = payload
\* the text segments of a delivered stream, in emission order
RECURSIVE StreamTexts(_)
StreamTexts(stream) ==
    IF stream = <<>> THEN <<>>
    ELSE LET m == Head(stream)
             T == {i \in 1..Len(m.content) : m.content[i].type = "TextBlock"}
             Nth(k) == CHOOSE i \in T : Cardinality({j \in T : j < i}) = k - 1
         IN  (IF m.type = "AssistantMessage"
              THEN [k \in 1..Cardinality(T) |-> m.content[Nth(k)].text]
              ELSE <<>>) \o StreamTexts(Tail(stream))

\* C4 as claimed: a turn that returns success with a session handle appends
\* exactly one batch (prompt, USER), (response, ASSISTANT),
\* ("__SESSION__:" + handle, OTHER) to its conversation.
C4_Claimed ==
    [][\A p \in Procs :
         (Finishes(p) /\ result'[p].kind = "ok" /\ Truthy(result'[p].session_id))
         => AppendedOne(store, store', conversation_id[p],
                        Batch(prompt[p], result'[p].response,
                              result'[p].session_id.val))]_vars
\* C4 amended: such a turn appends that one batch when the store's
\* create_event call succeeds, and leaves the store unchanged when it fails.
C4_OneBatchUnlessAppendFails ==
    [][\A p \in Procs :
         (Finishes(p) /\ result'[p].kind = "ok" /\ Truthy(result'[p].session_id))
         => /\ persist'[p].called
            /\ IF persist'[p].ok
               THEN AppendedOne(store, store', conversation_id[p],
                                Batch(prompt[p], result'[p].response,
                                      result'[p].session_id.val))
               ELSE store' = store]_vars
C4_Witness ==
    \E p \in Procs :
      /\ TurnOver(p) /\ result[p].kind = "ok" /\ result[p].session_id = Some(HandleS2)
      /\ persist[p].called /\ persist[p].ok
      /\ persist[p].batch = <<Msg(PromptHi, "USER"),
                              Msg(<<"a", "\n", "b">>, "ASSISTANT"),
                              Msg(MARKER_PREFIX \o HandleS2, "OTHER")>>
      /\ Len(store[conversation_id[p]]) >= 2

\* C5: when the stream of the call that returns carries no ResultMessage, the
\* turn returns a success result with session_id None and the store is left
\* as it was.
C5_NoHandleNoBatch ==
    [][\A p \in Procs :
         (/\ Finishes(p)
          /\ LastCall(p)'.outcome.end = "return"
          /\ IssuedHandle(LastCall(p)'.outcome.stream) = None)
         => /\ result'[p].kind = "ok"
            /\ result'[p].session_id = None
            /\ ~persist'[p].called
            /\ store' = store]_vars
C5_Witness ==
    \E p \in Procs :
      /\ TurnOver(p) /\ Len(calls[p]) = 1
      /\ calls[p][1].resume = Some(HandleS1)
      /\ calls[p][1].outcome = Outcome(StreamNoResult, "return", <<>>)
      /\ result[p].kind = "ok" /\ result[p].session_id = None
      /\ result[p].response = TextOk

\* C6: when create_event fails after execute_query returned, the turn still
\* returns the success result with the response text and the new session_id.
C6_AppendFailureSwallowed ==
    \A p \in Procs :
      (persist[p].called /\ ~persist[p].ok)
      => /\ TurnOver(p)
         /\ result[p].kind = "ok"
         /\ result[p].response = Join(StreamTexts(LastCall(p).outcome.stream))
         /\ result[p].session_id = IssuedHandle(LastCall(p).outcome.stream)
         /\ result[p].conversation_id = conversation_id[p]
C6_Witness ==
    \E p \in Procs :
      /\ persist[p].called /\ ~persist[p].ok
      /\ result[p].kind = "ok"
      /\ result[p].response = <<"a", "\n", "b">>
      /\ result[p].session_id = Some(HandleS2)

\* C7: when list_events fails, get_stored_session_id returns None without
\* raising; the turn makes one execute_query call, without resume hint, and an
\* error it reports is that call's.
C7_ListFailureStartsFresh ==
    \A p \in Procs :
      (listed[p].called /\ listed[p].failed)
      => /\ stored_session[p] = None
         /\ \A i \in 1..Len(calls[p]) : ~calls[p][i].resume.some
         /\ TurnOver(p) = (Len(calls[p]) = 1)
         /\ result[p].kind = "error" =>
              (LastCall(p).outcome.end = "raise"
               /\ result[p].error = LastCall(p).outcome.err)
         /\ result[p].kind = "raised" => LastCall(p).outcome.end = "cancel"
C7_Witness ==
    \E p \in Procs :
      /\ listed[p].called /\ listed[p].failed
      /\ store[conversation_id[p]] # <<>>
      /\ TurnOver(p) /\ Len(calls[p]) = 1 /\ ~calls[p][1].resume.some
      /\ result[p].kind = "ok"

\* the messages of a listing, in the order the two loops visit them
RECURSIVE Messages(_)
Messages(events) ==
    IF events = <<>> THEN <<>>
    ELSE (IF Head(events).shape = "dict" /\ Head(events).payloadShape = "list"
          THEN Head(events).payload ELSE <<>>) \o Messages(Tail(events))
\* msg carries a text that begins with the marker prefix
Prefixed(msg) == msg.shape = "conversational" /\ StartsWith(msg.text, MARKER_PREFIX)
\* msg is a session marker: a prefixed text of role OTHER
IsMarker(msg) == Prefixed(msg) /\ msg.role = "OTHER"
\* the text after the prefix
AfterPrefix(text) == SubSeq(text, Len(MARKER_PREFIX) + 1, Len(text))
\* the listing of p's turn succeeded and holds batches of save_session_id
\* whose prompt and response do not begin with the marker prefix
ListedCleanBatches(p) ==
    /\ listed[p].called /\ ~listed[p].failed /\ listed[p].events # <<>>
    /\ \A i \in 1..Len(listed[p].events) :
         /\ ~Prefixed(listed[p].events[i].payload[1])
         /\ ~Prefixed(listed[p].events[i].payload[2])
\* the newest of the listed events
Newest(events) ==
    events[CHOOSE i \in 1..Len(events) :
             \A j \in 1..Len(events) : events[j].eventId <= events[i].eventId]

\* C8 as claimed, for batches whose prompt and response do not begin with the
\* prefix: whatever the order of the listing, get_stored_session_id returns
\* the handle persisted by the latest turn.
C8_Claimed ==
    \A p \in Procs :
      ListedCleanBatches(p)
      => stored_session[p] =
           Some(AfterPrefix(Newest(listed[p].events).payload[3].text))
\* C8 amended: get_stored_session_id returns the handle decoded from the first
\* text beginning with "__SESSION__:" in the order list_events returned the
\* events (and in message order within an event), None when there is none.
C8_FirstListedMarkerWins ==
    \A p \in Procs :
      (listed[p].called /\ ~listed[p].failed)
      => LET msgs == Messages(listed[p].events)
             F == {i \in 1..Len(msgs) : Prefixed(msgs[i])}
         IN  IF F = {} THEN stored_session[p] = None
             ELSE stored_session[p] =
                    Some(DecodeMarker(msgs[CHOOSE i \in F : \A j \in F : i <= j].text))
C8_Witness ==
    \E p \in Procs :
      /\ ListedCleanBatches(p)
      /\ Len(listed[p].events) >= 2
      /\ listed[p].events[1].eventId = 1
      /\ stored_session[p] = Some(AfterPrefix(listed[p].events[1].payload[3].text))
      /\ stored_session[p] # Some(AfterPrefix(Newest(listed[p].events).payload[3].text))

\* C9 as claimed, for listings in which the marker is the only text that
\* begins with the prefix: when the listed events hold exactly one marker,
\* get_stored_session_id returns its handle whatever the other events and
\* messages are.
C9_Claimed ==
    LET msgs == Messages(rinput)
        F == {i \in 1..Len(msgs) : Prefixed(msgs[i])}
    IN  (routput.done /\ Cardinality(F) = 1 /\ \A i \in F : IsMarker(msgs[i]))
        => \A i \in F : routput.value = Some(AfterPrefix(msgs[i].text))

\* C10 as claimed: the handle get_stored_session_id returns is that of a
\* message of role OTHER among the listed events.
C10_Claimed ==
    \A p \in Procs :
      stored_session[p].some
      => \E i \in 1..Len(Messages(listed[p].events)) :
           /\ IsMarker(Messages(listed[p].events)[i])
           /\ stored_session[p].val = AfterPrefix(Messages(listed[p].events)[i].text)

\* C11 as claimed: decoding the marker save_session_id wrote for a non-empty
\* handle h gives back h.
C11_Claimed ==
    routput.done
    => routput.value = Some(AfterPrefix(store[ConvC1][1].payload[3].text))

\* C12: a turn whose execute_query call (resume or fallback) is cancelled
\* writes nothing: the store is left as it was and main returns no result.
C12_CancelledTurnAppendsNothing ==
    [][\A p \in Procs :
         (calls'[p] # calls[p] /\ calls'[p] # <<>>
          /\ LastCall(p)'.outcome.end = "cancel")
         => /\ store' = store
            /\ ~persist'[p].called
            /\ result'[p].kind = "raised"
            /\ pc'[p] = "idle"]_vars
C12_Witness ==
    \E p \in Procs :
      /\ TurnOver(p) /\ Len(calls[p]) = 2
      /\ calls[p][2].outcome = Outcome(StreamOk, "cancel", <<>>)
      /\ result[p].kind = "raised"
      /\ ~persist[p].called
      /\ Len(store[conversation_id[p]]) = 1

\* C13: a call of main with no payload, or with a missing or empty prompt,
\* returns an error result at once: the store is not listed and not changed
\* and execute_query is not called.
C13_InvalidRequestNoSideEffects ==
    [][\A p \in Procs :
         (/\ turns' = turns + 1
          /\ pc[p] = "idle"
          /\ prompt'[p] = <<>>
          /\ (result'[p].kind # "none" \/ pc'[p] # "idle"))
         => /\ pc'[p] = "idle"
            /\ result'[p] \in {ErrorResult(ErrNoPayload), ErrorResult(ErrNoPrompt)}
            /\ ~listed'[p].called
            /\ calls'[p] = <<>>
            /\ ~persist'[p].called
            /\ store' = store]_vars
C13_Witness ==
    \E p \in Procs :
      /\ TurnOver(p) /\ result[p] = ErrorResult(ErrNoPrompt)
      /\ ~listed[p].called /\ calls[p] = <<>>
      /\ store[ConvC1] # <<>>

\* p begins a turn in this step and its list_events call succeeds
Lists(p) == pc[p] = "idle" /\ pc'[p] = "resolved" /\ ~listed'[p].failed
\* events is a listing of the whole of log, in some order
ListingOf(events, log) ==
    /\ Len(events) = Len(log)
    /\ \A i \in 1..Len(log) : \E j \in 1..Len(events) : events[j] = log[i]

\* C14: under any interleaving of two processes, the log of a conversation
\* changes only in the step that ends a turn of that conversation, and a turn
\* lists the events of its own conversation only.
C14_ConversationsIndependent ==
    [][/\ \A c \in Conversations :
            store'[c] # store[c]
            => \E p \in Procs :
                 /\ Finishes(p) /\ conversation_id[p] = c
                 /\ persist'[p].called /\ persist'[p].ok
       /\ \A p \in Procs :
            Lists(p)
            => ListingOf(listed'[p].events, store[conversation_id'[p]])]_vars
C14_Witness ==
    \E p, q \in Procs :
      /\ TurnOver(p) /\ TurnOver(q)
      /\ conversation_id[p] = ConvC1 /\ conversation_id[q] = DefaultConversation
      /\ persist[p].called /\ persist[p].ok /\ persist[q].called /\ persist[q].ok
      /\ listed[p].events = <<>> /\ listed[q].events = <<>>
      /\ ~listed[p].failed /\ ~listed[q].failed
      /\ Len(store[ConvC1]) = 1 /\ Len(store[DefaultConversation]) = 2

\* the last turns of p and q ran at the same time on one conversation and both
\* appended: each listed the log before the other's batch was in it
Raced(p, q) ==
    /\ p # q /\ TurnOver(p) /\ TurnOver(q)
    /\ conversation_id[p] = conversation_id[q]
    /\ persist[p].called /\ persist[p].ok /\ persist[q].called /\ persist[q].ok
    /\ ~listed[p].failed /\ ~listed[q].failed
    /\ Len(listed[p].events) = Len(listed[q].events)
\* the handle of the first message of role OTHER that is a marker
FirstMarkerHandle(events) ==
    LET msgs == Messages(events)
        M == {i \in 1..Len(msgs) : IsMarker(msgs[i])}
    IN  IF M = {} THEN None
        ELSE Some(AfterPrefix(msgs[CHOOSE i \in M : \A j \in M : i <= j].text))
\* both batches are whole events of the log
BothBatchesKept(p, q) ==
    \E i, j \in 1..Len(store[conversation_id[p]]) :
      /\ i # j
      /\ store[conversation_id[p]][i].payload = persist[p].batch
      /\ store[conversation_id[p]][j].payload = persist[q].batch
      /\ Len(persist[p].batch) = 3 /\ Len(persist[q].batch) = 3

\* C20 as claimed: after two turns of one conversation ran at the same time
\* and both succeeded with a handle, the log holds both 3-message batches and
\* the next get_stored_session_id returns the handle of the marker that
\* list_events lists first.
C20_Claimed ==
    [][\A p, q \in Procs :
         Raced(p, q)
         => /\ BothBatchesKept(p, q)
            /\ \A r \in Procs :
                 (Lists(r) /\ conversation_id'[r] = conversation_id[p])
                 => stored_session'[r] = FirstMarkerHandle(listed'[r].events)]_vars

\* C15: the response a turn returns, and the ASSISTANT text it appends, is
\* the texts of the TextBlocks streamed by the execute_query call that
\* returned, in emission order, joined by newline; texts streamed by a failed
\* resume attempt are not in it.
C15_ResponseOfSuccessfulAttempt ==
    \A p \in Procs :
      (TurnOver(p) /\ result[p].kind = "ok")
      => /\ LastCall(p).outcome.end = "return"
         /\ result[p].response = Join(StreamTexts(LastCall(p).outcome.stream))
         /\ (persist[p].called /\ persist[p].ok)
              => persist[p].batch[2] = Msg(result[p].response, "ASSISTANT")
C15_Witness ==
    \E p \in Procs :
      /\ TurnOver(p) /\ Len(calls[p]) = 2
      /\ calls[p][1].outcome = Outcome(StreamNoResult, "raise", MsgExitCode)
      /\ calls[p][2].outcome = Outcome(StreamTwo, "return", <<>>)
      /\ result[p].kind = "ok"
      /\ result[p].response = <<"a", "\n", "b">>
      /\ persist[p].called /\ persist[p].ok
      /\ persist[p].batch[2].text = <<"a", "\n", "b">>

\* C16 as claimed: the first execute_query call of a turn carries a resume
\* hint exactly when get_stored_session_id returned a handle, and the hint is
\* that handle; the store is listed before execute_query is called, and
\* create_event is called only after an execute_query call returned.
C16_Claimed ==
    \A p \in Procs :
      /\ calls[p] # <<>>
           => /\ listed[p].called
              /\ calls[p][1].resume = stored_session[p]
      /\ persist[p].called
           => (calls[p] # <<>> /\ LastCall(p).outcome.end = "return")

\* what main gives back for the way its last execute_query call ended
Terminal(p) ==
    /\ calls[p] # <<>>
    /\ LastCall(p).outcome.end = "return" => result[p].kind = "ok"
    /\ LastCall(p).outcome.end = "raise" => result[p].kind = "error"
    /\ LastCall(p).outcome.end = "cancel" => result[p].kind = "raised"

\* C17: when every execute_query call that is made ends, a turn that passed
\* validation ends within the same call of main: with the success result
\* when its last execute_query call returned, with the error result when it
\* raised (and with no result when it was cancelled), whatever list_events
\* and create_event did.
C17_TurnTerminates ==
    \A p \in Main : \A n \in 1..MaxFairTurns :
      (turns = n /\ pc[p] # "idle")
      ~> (turns = n /\ TurnOver(p) /\ Terminal(p))
C17_Witness ==
    \E p \in Main :
      /\ TurnOver(p) /\ Terminal(p) /\ Len(calls[p]) = 2
      /\ listed[p].called /\ ~listed[p].failed
      /\ LastCall(p).outcome.end = "return"
      /\ persist[p].called /\ ~persist[p].ok
      /\ result[p].kind = "ok"

\* log2 is log1 with at most one event appended
GrewBy(log1, log2) ==
    /\ Len(log2) \in {Len(log1), Len(log1) + 1}
    /\ SubSeq(log2, 1, Len(log1)) = log1

\* C18: every step leaves each conversation's log as it was or with one
\* event appended; the log changes only in the step that ends a turn with the
\* success result, by one batch of three messages; the step that validates
\* and calls get_stored_session_id, and a turn that ends with the error
\* result, leave the store unchanged.
C18_AppendOnly ==
    [][/\ \A c \in Conversations : GrewBy(store[c], store'[c])
       /\ \A c \in Conversations :
            store'[c] # store[c]
            => /\ \E p \in Procs :
                    /\ Finishes(p) /\ result'[p].kind = "ok"
                    /\ conversation_id[p] = c
               /\ Len(store'[c][Len(store'[c])].payload) = 3
       /\ \A p \in Procs :
            (pc[p] = "idle" /\ listed'[p].called /\ turns' # turns)
            => store' = store
       /\ \A p \in Procs :
            (Finishes(p) /\ result'[p].kind = "error") => store' = store]_vars
C18_Witness ==
    \E p \in Procs :
      /\ TurnOver(p) /\ result[p].kind = "error" /\ calls[p] # <<>>
      /\ Len(store[conversation_id[p]]) = 2
      /\ \A i \in 1..Len(store[conversation_id[p]]) :
           store[conversation_id[p]][i].eventId = i

\* C19: the marker of a batch a turn appended carries the session_id of the
\* turn's success result, which is the non-empty handle issued by the
\* execute_query call that returned (after a failed resume attempt, the
\* fresh attempt's); no stored marker has an empty handle.
C19_MarkerCarriesReturnedHandle ==
    /\ \A p \in Procs :
         (persist[p].called /\ persist[p].ok)
         => /\ result[p].kind = "ok"
            /\ Truthy(result[p].session_id)
            /\ result[p].session_id = IssuedHandle(LastCall(p).outcome.stream)
            /\ persist[p].batch[3] =
                 Msg(MARKER_PREFIX \o result[p].session_id.val, "OTHER")
    /\ \A c \in Conversations : \A i \in 1..Len(store[c]) :
         /\ IsMarker(store[c][i].payload[3])
         /\ AfterPrefix(store[c][i].payload[3].text) # <<>>
C19_Witness ==
    \E p \in Procs :
      /\ TurnOver(p) /\ Len(calls[p]) = 2
      /\ stored_session[p] = Some(HandleS1)
      /\ calls[p][1].resume = Some(HandleS1)
      /\ persist[p].called /\ persist[p].ok
      /\ result[p].session_id = Some(HandleS2)
      /\ persist[p].batch[3].text = MARKER_PREFIX \o HandleS2

====
